---- MODULE Spec2Model ----
(***************************************************************************)
(* Rendering core of venus: the texture atlas (src/texture_atlas.rs), the  *)
(* batched renderer (src/graphics.rs), the texture values of lib.rs and    *)
(* the glyph cache and text layout (src/font.rs).                          *)
(***************************************************************************)
EXTENDS Integers, Sequences, FiniteSets, TLC

VARIABLES
    pages,          \* TextureAtlas.pages
    panicked,       \* "none", or the message of the panic that ended the process
    issued,         \* history: every handle returned by upload_image, with its region
    last,           \* history: the last call made, [op, arg]
    gfx,            \* Graphics: vertex_data, index_data, vertices, bound_texture, shader uniforms
    draws,          \* GPU boundary: the draw calls issued so far, in order
    pending,        \* history: the rectangles pushed since the last draw call
    calls,          \* history: the arguments of every push_rect call, in call order
    textures,       \* the Texture values the application holds
    font,           \* Font: the glyph cache `characters`
    text_renderer,  \* TextRenderer: word_buffer, character_buffer
    glyphs          \* the character buffer the caller passed to the last layout_text

atlasVars == <<pages, panicked, issued, last>>

gfxVars == <<gfx, draws, pending, calls>>

textVars == <<font, text_renderer, glyphs>>

vars == <<pages, panicked, issued, last, gfx, draws, pending, calls, textures,
          font, text_renderer, glyphs>>

----------------------------------------------------------------------------
(* Program constants and the bounds of the model                           *)

ATLAS_SIZE == 2048

\* Bitmap dimensions tried by the upload actions: zero, one, half a page, and
\* the values around the page size.
Dims == {0, 1, 1024, ATLAS_SIZE - 1, ATLAS_SIZE, ATLAS_SIZE + 1}

MaxUploads == 3

MaxRowUploads == 2049

\* Bitmaps the application turns into textures: powers of two, for which every
\* f32 quotient below is exact; two of the large ones do not share a page.
TexDims == {<<16, 16>>, <<ATLAS_SIZE, 1024>>}

MaxTextures == 2

MaxPushes == 3

----------------------------------------------------------------------------
(* shape.rs                                                                *)

IRect(x, y, width, height) == [x |-> x, y |-> y, width |-> width, height |-> height]

\* f32 values are fractions <<n, d>> in lowest terms with d >= 0; d = 0 are the
\* IEEE values a division by zero produces: <<1, 0>> and <<-1, 0>> the
\* infinities, <<0, 0>> NaN.
RECURSIVE Gcd(_, _)
Gcd(a, b) == IF b = 0 THEN a ELSE Gcd(b, a % b)

Abs(a) == IF a < 0 THEN -a ELSE a

Sgn(a) == IF a < 0 THEN -1 ELSE IF a > 0 THEN 1 ELSE 0

Norm(n, d) ==
    IF d = 0 THEN <<Sgn(n), 0>>
    ELSE LET g == Gcd(Abs(n), Abs(d))
         IN  <<Sgn(d) * (n \div g), Abs(d) \div g>>

F(i) == <<i, 1>>

NaN == <<0, 0>>

FAdd(a, b) ==
    IF a[2] = 0 /\ b[2] = 0 THEN (IF a = b THEN a ELSE NaN)
    ELSE IF a[2] = 0 THEN a
    ELSE IF b[2] = 0 THEN b
    ELSE Norm(a[1] * b[2] + b[1] * a[2], a[2] * b[2])

FMul(a, b) == Norm(a[1] * b[1], a[2] * b[2])

FDiv(a, b) == Norm(a[1] * b[2], a[2] * b[1])

FLe(a, b) == a # NaN /\ b # NaN /\ a[1] * b[2] <= b[1] * a[2]

Rect(x, y, width, height) == [x |-> x, y |-> y, width |-> width, height |-> height]

\* glam's Mat3, column by column.
IDENTITY == <<1, 0, 0, 0, 1, 0, 0, 0, 1>>

\* glam's Mat3 with f32 entries, column by column: x_axis, y_axis, z_axis.
\* Mat3::from_scale
Mat3_from_scale(scale) ==
    <<scale[1], F(0), F(0), F(0), scale[2], F(0), F(0), F(0), F(1)>>

\* Mat3::from_translation
Mat3_from_translation(translation) ==
    <<F(1), F(0), F(0), F(0), F(1), F(0), translation[1], translation[2], F(1)>>

\* Mat3 * Mat3: column j of the product is a * (column j of b), and a * v is
\* x_axis * v.x + y_axis * v.y + z_axis * v.z.
Mat3_mul(a, b) ==
    CHOOSE product \in
        {[n \in 1..9 |->
            LET i == ((n - 1) % 3) + 1
                c == 3 * ((n - 1) \div 3)
            IN  FAdd(FAdd(FMul(lhs[i], rhs[c + 1]), FMul(lhs[3 + i], rhs[c + 2])),
                     FMul(lhs[6 + i], rhs[c + 3]))] : lhs \in {a}, rhs \in {b}} : TRUE

\* Mat3::transform_point2: the 2x2 part applied to the point, plus z_axis.
transform_point2(m, point) ==
    <<FAdd(FAdd(FMul(m[1], point[1]), FMul(m[4], point[2])), m[7]),
      FAdd(FAdd(FMul(m[2], point[1]), FMul(m[5], point[2])), m[8])>>

\* Mutation of orthographic_projection: the y axis is not flipped.
orthographic_projection_no_flip(x, y, width, height) ==
    Mat3_mul(Mat3_mul(Mat3_mul(Mat3_from_scale(<<F(2), F(2)>>),
                               Mat3_from_translation(<<<<-1, 2>>, <<-1, 2>>>>)),
                      Mat3_from_scale(<<FDiv(F(1), width), FDiv(F(1), height)>>)),
             Mat3_from_translation(<<FMul(F(-1), x), FMul(F(-1), y)>>))

\* orthographic_projection
orthographic_projection(x, y, width, height) ==
    Mat3_mul(Mat3_mul(Mat3_mul(Mat3_from_scale(<<F(2), F(-2)>>),
                               Mat3_from_translation(<<<<-1, 2>>, <<-1, 2>>>>)),
                      Mat3_from_scale(<<FDiv(F(1), width), FDiv(F(1), height)>>)),
             Mat3_from_translation(<<FMul(F(-1), x), FMul(F(-1), y)>>))

----------------------------------------------------------------------------
(* texture_atlas.rs                                                        *)

TextureHandle(atlas, index) == [atlas |-> atlas, index |-> index]

bind_point_for_atlas(atlas) == atlas + 1

bind_point(texture) == bind_point_for_atlas(texture.atlas)

TextureAtlas_new == << >>

\* TexturePage::new; backing_texture.active is the texture unit the page's GPU
\* texture is bound to (0: not bound yet).
TexturePage_new ==
    [backing_texture |-> [active |-> 0],
     cursor_x |-> 0, cursor_y |-> 0, line_height |-> 0,
     texture_uvs |-> << >>]

Max(a, b) == IF a >= b THEN a ELSE b

\* The first test of upload_texture: the bitmap does not fit the current shelf.
NeedsNewShelf(page, width) == page.cursor_x + width >= ATLAS_SIZE

\* Mutation of ShelfCantFit: a page never refuses a new shelf.
ShelfCantFit_never(page, height) == FALSE

\* The second test, made only when a new shelf is needed.
ShelfCantFit(page, height) == page.cursor_y + page.line_height + height >= ATLAS_SIZE

\* The cursor after the shelf test of upload_texture (lines 115-122).
start_shelf(page, width) ==
    IF NeedsNewShelf(page, width)
    THEN [page EXCEPT !.cursor_y = page.cursor_y + page.line_height,
                      !.cursor_x = 0,
                      !.line_height = 0]
    ELSE page

\* Mutation of next_index: the index of the last region, not of the new one.
next_index_stale(page) == Max(Len(page.texture_uvs) - 1, 0)

\* The index upload_texture returns for the region it is about to push.
next_index(page) == Len(page.texture_uvs)

\* Mutation of record_region: the cursor is not advanced past the bitmap.
record_region_no_advance(page, width, height) ==
    [page EXCEPT !.texture_uvs = Append(page.texture_uvs,
                                        IRect(page.cursor_x, page.cursor_y, width, height)),
                 !.line_height = Max(page.line_height, height)]

\* Lines 132-140: record the region at the cursor and advance the cursor.
record_region(page, width, height) ==
    [page EXCEPT !.texture_uvs = Append(page.texture_uvs,
                                        IRect(page.cursor_x, page.cursor_y, width, height)),
                 !.cursor_x = page.cursor_x + width,
                 !.line_height = Max(page.line_height, height)]

\* TexturePage::upload_texture: Err(CantFit) leaves the page as it was.
upload_texture(page, width, height) ==
    IF NeedsNewShelf(page, width) /\ ShelfCantFit(page, height)
    THEN [ok |-> FALSE, page |-> page, index |-> 0]
    ELSE LET p == start_shelf(page, width)
         IN  [ok |-> TRUE, page |-> record_region(p, width, height), index |-> next_index(p)]

\* The loop of upload_image over the existing pages, from page i on: the first
\* page whose upload_texture returns Ok takes the bitmap.
\* Mutation of try_pages: the existing pages are never used.
try_pages_none(pgs, i, width, height) ==
    [found |-> FALSE, pages |-> pgs, handle |-> TextureHandle(0, 0)]

\* Mutation of try_pages: only the page at i is tried.
try_pages_first_only(pgs, i, width, height) ==
    IF i > Len(pgs)
    THEN [found |-> FALSE, pages |-> pgs, handle |-> TextureHandle(0, 0)]
    ELSE LET r == upload_texture(pgs[i], width, height)
         IN  IF r.ok
             THEN [found |-> TRUE,
                   pages |-> [pgs EXCEPT ![i] = r.page],
                   handle |-> TextureHandle(i - 1, r.index)]
             ELSE [found |-> FALSE, pages |-> pgs, handle |-> TextureHandle(0, 0)]

RECURSIVE try_pages(_, _, _, _)
try_pages(pgs, i, width, height) ==
    IF i > Len(pgs)
    THEN [found |-> FALSE, pages |-> pgs, handle |-> TextureHandle(0, 0)]
    ELSE LET r == upload_texture(pgs[i], width, height)
         IN  IF r.ok
             THEN [found |-> TRUE,
                   pages |-> [pgs EXCEPT ![i] = r.page],
                   handle |-> TextureHandle(i - 1, r.index)]
             ELSE try_pages(pgs, i + 1, width, height)

\* The fallback of upload_image (lines 48-57): a fresh page, which must take
\* the bitmap (expect), is bound to its texture unit and pushed.
upload_to_new_page(pgs, width, height) ==
    LET atlas == Len(pgs)
        r     == upload_texture(TexturePage_new, width, height)
    IN  IF r.ok
        THEN [panic |-> "none",
              pages |-> Append(pgs, [r.page EXCEPT !.backing_texture.active =
                                                       bind_point_for_atlas(atlas)]),
              handle |-> TextureHandle(atlas, r.index)]
        ELSE [panic |-> "uploading texture", pages |-> pgs, handle |-> TextureHandle(0, 0)]

\* TextureAtlas::upload_image
upload_image(pgs, width, height) ==
    LET t == try_pages(pgs, 1, width, height)
    IN  IF t.found
        THEN [panic |-> "none", pages |-> t.pages, handle |-> t.handle]
        ELSE upload_to_new_page(pgs, width, height)

\* The region a handle addresses (line 62 of uv).
region_of(pgs, texture) == pgs[texture.atlas + 1].texture_uvs[texture.index + 1]

\* TextureAtlas::uv
uv(pgs, texture, uvrect) ==
    LET region == region_of(pgs, texture)
        texture_point_x == FDiv(F(region.x), F(ATLAS_SIZE))
        texture_point_y == FDiv(F(region.y), F(ATLAS_SIZE))
    IN  Rect(FAdd(texture_point_x, uvrect.x),
             FAdd(texture_point_y, uvrect.y),
             FDiv(uvrect.width, F(region.width)),
             FDiv(uvrect.height, F(region.height)))

----------------------------------------------------------------------------
(* color.rs                                                                *)

Color(r, g, b, a) == [r |-> F(r), g |-> F(g), b |-> F(b), a |-> F(a)]

WHITE == Color(1, 1, 1, 1)

RED == Color(1, 0, 0, 1)

----------------------------------------------------------------------------
(* graphics.rs                                                             *)

\* Graphics::new. bound_texture: Option<NonZeroU32>, 0 is None. shader.image is
\* the sampler uniform, 0 until it is first set.
Graphics_new ==
    [vertex_data |-> << >>,
     index_data |-> << >>,
     vertices |-> 0,
     bound_texture |-> 0,
     shader |-> [image |-> 0, projection |-> IDENTITY]]

NoTexture == [some |-> FALSE, handle |-> TextureHandle(0, 0), uv |-> Rect(F(0), F(0), F(0), F(0))]

SomeTexture(handle, uvrect) == [some |-> TRUE, handle |-> handle, uv |-> uvrect]

\* Mutation of push_vertex: the vertex is stored and not counted.
push_vertex_no_count(g, x, y, color, u, v) ==
    [g EXCEPT !.vertex_data = g.vertex_data \o <<color.r, color.g, color.b, color.a, x, y, u, v>>]

\* Graphics::push_vertex
push_vertex(g, x, y, color, u, v) ==
    [g EXCEPT !.vertex_data = g.vertex_data \o <<color.r, color.g, color.b, color.a, x, y, u, v>>,
              !.vertices = g.vertices + 1]

\* The draw call of flush (lines 179-193): both buffers are uploaded and the
\* whole index buffer is drawn with the uniforms as they are.
draw_call(g, rects) ==
    [vb |-> g.vertex_data,
     eb |-> g.index_data,
     range |-> <<0, Len(g.index_data)>>,
     image |-> g.shader.image,
     projection |-> g.shader.projection,
     rects |-> rects]

\* Mutation of flush: the index data is not cleared after the draw.
flush_keeps_indices(g, rects) ==
    IF g.vertices = 0
    THEN [gfx |-> g, draw |-> << >>, pending |-> rects]
    ELSE [gfx |-> [g EXCEPT !.vertex_data = << >>, !.vertices = 0],
          draw |-> <<draw_call(g, rects)>>,
          pending |-> << >>]

\* Mutation of flush: the bound texture unit is forgotten after the draw.
flush_clears_bound(g, rects) ==
    IF g.vertices = 0
    THEN [gfx |-> g, draw |-> << >>, pending |-> rects]
    ELSE [gfx |-> [g EXCEPT !.vertex_data = << >>, !.index_data = << >>, !.vertices = 0,
                            !.bound_texture = 0],
          draw |-> <<draw_call(g, rects)>>,
          pending |-> << >>]

\* Mutation of flush: the accumulators are cleared and nothing is drawn.
flush_drops(g, rects) ==
    [gfx |-> [g EXCEPT !.vertex_data = << >>, !.index_data = << >>, !.vertices = 0],
     draw |-> << >>,
     pending |-> << >>]

\* Graphics::flush. rects is the history of the batch, attached to the draw call.
flush(g, rects) ==
    IF g.vertices = 0
    THEN [gfx |-> g, draw |-> << >>, pending |-> rects]
    ELSE [gfx |-> [g EXCEPT !.vertex_data = << >>, !.index_data = << >>, !.vertices = 0],
          draw |-> <<draw_call(g, rects)>>,
          pending |-> << >>]

\* Mutation of set_projection_matrix: the uniform is replaced without a flush.
set_projection_matrix_no_flush(g, rects, matrix) ==
    [gfx |-> [g EXCEPT !.shader.projection = matrix], draw |-> << >>, pending |-> rects]

\* Graphics::set_projection_matrix
set_projection_matrix(g, rects, matrix) ==
    LET f == flush(g, rects)
    IN  [f EXCEPT !.gfx.shader.projection = matrix]

\* Mutation of needs_flush: the batch is never flushed by a push.
needs_flush_never(currently_bound, bp) == FALSE

\* Mutation of needs_flush: no bound texture counts as a different one.
needs_flush_unbound(currently_bound, bp) == bp # currently_bound

\* Lines 123-127 of push_rect: a texture is bound, and it is another one.
needs_flush(currently_bound, bp) == currently_bound # 0 /\ bp # currently_bound

\* Graphics::push_rect
push_rect(g, pgs, rects, region, color, texture) ==
    LET bp == bind_point(texture.handle)
        flushed == texture.some /\ needs_flush(g.bound_texture, bp)
        f  == IF flushed THEN flush(g, rects) ELSE [gfx |-> g, draw |-> << >>, pending |-> rects]
        g1 == IF texture.some
              THEN [f.gfx EXCEPT !.shader.image = bp, !.bound_texture = bp]
              ELSE f.gfx
        uvr == IF texture.some
               THEN uv(pgs, texture.handle, texture.uv)
               ELSE Rect(F(-1), F(-1), F(0), F(0))
        index == g1.vertices
        right == FAdd(region.x, region.width)
        bottom == FAdd(region.y, region.height)
        uright == FAdd(uvr.x, uvr.width)
        vbottom == FAdd(uvr.y, uvr.height)
        g2 == push_vertex(g1, region.x, region.y, color, uvr.x, uvr.y)
        g3 == push_vertex(g2, right, region.y, color, uright, uvr.y)
        g4 == push_vertex(g3, right, bottom, color, uright, vbottom)
        g5 == push_vertex(g4, region.x, bottom, color, uvr.x, vbottom)
        g6 == [g5 EXCEPT !.index_data = g5.index_data \o
                   <<index, index + 1, index + 2, index, index + 2, index + 3>>]
    IN  [gfx |-> g6,
         draw |-> f.draw,
         flushed |-> flushed,
         pending |-> Append(f.pending, [unit |-> IF texture.some THEN bp ELSE 0,
                                        handle |-> texture.handle,
                                        region |-> region,
                                        color |-> color,
                                        uv |-> uvr,
                                        projection |-> g.shader.projection])]

----------------------------------------------------------------------------
(* lib.rs                                                                  *)

Texture(handle, uvrect, width, height) ==
    [handle |-> handle, uv |-> uvrect, width |-> width, height |-> height]

\* The Texture that Venus::new_texture_from_bytes wraps around a handle.
new_texture(handle, width, height) ==
    Texture(handle, Rect(F(0), F(0), F(1), F(1)), width, height)

\* Texture::sub_texture; ok is the assertion.
sub_texture(self, x, y, width, height) ==
    [ok |-> x + width <= self.width /\ y + height <= self.height,
     texture |-> Texture(self.handle,
                         Rect(FAdd(self.uv.x, FMul(FDiv(F(x), F(self.width)), self.uv.width)),
                              FAdd(self.uv.y, FMul(FDiv(F(y), F(self.height)), self.uv.height)),
                              FMul(FDiv(F(width), F(self.width)), self.uv.width),
                              FMul(FDiv(F(height), F(self.height)), self.uv.height)),
                         width, height)]

\* A u32 as its two 16-bit halves <<high, low>>, so that values up to 2^32 - 1
\* and their sums are computed at full width. U32(n) is the u32 of a small n.
U32(n) == <<n \div 65536, n % 65536>>

\* a + b on u32: the wrapped sum, and whether the sum passed 2^32 - 1.
u32_add(a, b) ==
    LET low == a[2] + b[2]
        high == a[1] + b[1] + (low \div 65536)
    IN  [overflow |-> high >= 65536, value |-> <<high % 65536, low % 65536>>]

\* a <= b on u32.
u32_le(a, b) == a[1] < b[1] \/ (a[1] = b[1] /\ a[2] <= b[2])

\* `a as f32`: the nearest value with a significand of 24 bits, ties to even,
\* as [m, s] for m * 2^s.
u32_as_f32(a) ==
    LET s == CHOOSE k \in 0..8 : a[1] < 2 ^ (8 + k) /\ (k = 0 \/ a[1] >= 2 ^ (7 + k))
        q == a[1] * 2 ^ (16 - s) + (a[2] \div 2 ^ s)
        r == a[2] % 2 ^ s
        half == 2 ^ s \div 2
        up == s > 0 /\ (r > half \/ (r = half /\ q % 2 = 1))
    IN  [m |-> IF up THEN q + 1 ELSE q, s |-> s]

\* `a as f32 / b as f32` for a divisor below 2^24; the quotient is kept exact.
f32_div_u32(a, b) ==
    LET fa == u32_as_f32(a)
        fb == u32_as_f32(b)
        g == Gcd(2 ^ fa.s, fb.m)
    IN  IF fb.m = 0 THEN Norm(fa.m, 0)
        ELSE Norm(fa.m * (2 ^ fa.s \div g), fb.m \div g)

\* Texture::sub_texture on all of u32. The sums x + width and y + height panic
\* on overflow in a build with overflow checks and wrap in a build without;
\* && does not evaluate its right side when the left side is false.
sub_texture_u32(self, x, y, width, height, overflow_checks) ==
    LET sx == u32_add(x, width)
        sy == u32_add(y, height)
        failed == "sub-texture coordinates must be within the bounds of the texture"
        uvrect == Rect(FAdd(self.uv.x, FMul(f32_div_u32(x, self.width), self.uv.width)),
                       FAdd(self.uv.y, FMul(f32_div_u32(y, self.height), self.uv.height)),
                       FMul(f32_div_u32(width, self.width), self.uv.width),
                       FMul(f32_div_u32(height, self.height), self.uv.height))
    IN  IF overflow_checks /\ sx.overflow
        THEN [panic |-> "attempt to add with overflow", texture |-> self]
        ELSE IF ~u32_le(sx.value, self.width) THEN [panic |-> failed, texture |-> self]
        ELSE IF overflow_checks /\ sy.overflow
        THEN [panic |-> "attempt to add with overflow", texture |-> self]
        ELSE IF ~u32_le(sy.value, self.height) THEN [panic |-> failed, texture |-> self]
        ELSE [panic |-> "none", texture |-> Texture(self.handle, uvrect, width, height)]

----------------------------------------------------------------------------
(* font.rs                                                                 *)

\* An absent and a present Option<char>.
NoChar == [some |-> FALSE, ch |-> ""]

SomeChar(ch) == [some |-> TRUE, ch |-> ch]

\* char::is_whitespace, on the characters of the model.
is_whitespace(ch) == ch \in {" ", "\n"}

\* The font file behind fontdue::Font: for each character the advance width,
\* the bitmap width and height and ymin, at 16 pixels. The space has no bitmap.
GlyphTable ==
    [ch \in {"a", "b", "d", "e", "g", "h", "l", "o", "r", "w", " ", "\n"} |->
        CASE ch = "a" -> [advance |-> F(8), width |-> 7, height |-> 8, ymin |-> 0]
          [] ch = "b" -> [advance |-> F(9), width |-> 8, height |-> 12, ymin |-> 0]
          [] ch = "d" -> [advance |-> F(9), width |-> 8, height |-> 12, ymin |-> 0]
          [] ch = "e" -> [advance |-> F(8), width |-> 7, height |-> 8, ymin |-> 0]
          [] ch = "g" -> [advance |-> F(9), width |-> 8, height |-> 12, ymin |-> -4]
          [] ch = "h" -> [advance |-> F(9), width |-> 8, height |-> 12, ymin |-> 0]
          [] ch = "l" -> [advance |-> F(4), width |-> 2, height |-> 12, ymin |-> 0]
          [] ch = "o" -> [advance |-> F(9), width |-> 8, height |-> 8, ymin |-> 0]
          [] ch = "r" -> [advance |-> <<13, 2>>, width |-> 5, height |-> 8, ymin |-> 0]
          [] ch = "w" -> [advance |-> F(12), width |-> 11, height |-> 8, ymin |-> 0]
          [] ch = " " -> [advance |-> F(4), width |-> 0, height |-> 0, ymin |-> 0]
          [] OTHER    -> [advance |-> F(0), width |-> 0, height |-> 0, ymin |-> 0]]

\* The kerning pairs of the font file, at 16 pixels.
KernTable == (<<"a", "b">> :> F(-1)) @@ (<<"w", "o">> :> <<-1, 2>>)

\* fontdue::Font::metrics; the metrics scale with the size.
font_metrics(ch, size) ==
    LET g == GlyphTable[ch]
    IN  [advance_width |-> FMul(g.advance, Norm(size, 16)),
         width |-> (g.width * size) \div 16,
         height |-> (g.height * size) \div 16,
         ymin |-> (g.ymin * size) \div 16]

\* fontdue::Font::rasterize: the metrics, and a bitmap of width * height bytes
\* of which the model keeps the dimensions.
font_rasterize(ch, size) ==
    LET m == font_metrics(ch, size)
    IN  [metrics |-> m, buffer |-> [width |-> m.width, height |-> m.height]]

\* fontdue::Font::horizontal_kern
horizontal_kern(prev_ch, ch, size) ==
    IF <<prev_ch, ch>> \in DOMAIN KernTable
    THEN [some |-> TRUE, kern |-> FMul(KernTable[<<prev_ch, ch>>], Norm(size, 16))]
    ELSE [some |-> FALSE, kern |-> F(0)]

\* fontdue::Font::horizontal_line_metrics
horizontal_line_metrics(size) == [some |-> TRUE, new_line_size |-> Norm(5 * size, 4)]

\* Font::from_bytes
Font_new == [characters |-> << >>]

\* Mutation of metrics: no fallback to the font on a miss.
metrics_hit_only(f, ch, size) ==
    IF <<ch, size>> \in DOMAIN f.characters
    THEN f.characters[<<ch, size>>].metrics
    ELSE [advance_width |-> F(0), width |-> 0, height |-> 0, ymin |-> 0]

\* Font::metrics
metrics(f, ch, size) ==
    IF <<ch, size>> \in DOMAIN f.characters
    THEN f.characters[<<ch, size>>].metrics
    ELSE font_metrics(ch, size)

\* The one element of a set of one element: Only({e : v \in {d}}) is e with v
\* bound to the value of d.
Only(S) == CHOOSE v \in S : TRUE

\* The cache with the entry of key set to value.
insert(characters, key, value) ==
    [k \in DOMAIN characters \cup {key} |-> IF k = key THEN value ELSE characters[k]]

\* The closure of Font::rasterize (lines 35-55): the glyph is rasterized,
\* uploaded as a texture of its own and stored with its metrics. hist is the
\* history of uploads.
rasterize_miss(f, pgs, hist, ch, size) ==
    Only({Only({
        LET width == r.metrics.width
            height == r.metrics.height
            texture == Texture(up.handle, Rect(F(0), F(0), F(1), F(1)), width, height)
            entry == [texture |-> texture, metrics |-> r.metrics]
        IN  IF up.panic # "none"
            THEN [panic |-> up.panic, font |-> f, pages |-> pgs, issued |-> hist,
                  entry |-> entry]
            ELSE [panic |-> "none",
                  font |-> [f EXCEPT !.characters = insert(f.characters, <<ch, size>>, entry)],
                  pages |-> up.pages,
                  issued |-> Append(hist, [handle |-> up.handle,
                                           region |-> region_of(up.pages, up.handle)]),
                  entry |-> entry]
        : up \in {upload_image(pgs, r.metrics.width, r.metrics.height)}})
        : r \in {font_rasterize(ch, size)}})

\* Mutation of rasterize: the cache is not consulted.
rasterize_uncached(f, pgs, hist, ch, size) == rasterize_miss(f, pgs, hist, ch, size)

\* Font::rasterize
rasterize(f, pgs, hist, ch, size) ==
    IF <<ch, size>> \in DOMAIN f.characters
    THEN [panic |-> "none", font |-> f, pages |-> pgs, issued |-> hist,
          entry |-> f.characters[<<ch, size>>]]
    ELSE rasterize_miss(f, pgs, hist, ch, size)

RECURSIVE text_width_from(_, _, _, _, _)
\* The loop of Font::text_width from the i-th character on. prev_ch is bound
\* once, to None (line 62), and the loop never assigns it.
text_width_from(f, text, size, i, width) ==
    IF i > Len(text) THEN width
    ELSE LET prev_ch == NoChar
             ch == text[i]
             kern == horizontal_kern(prev_ch.ch, ch, size)
             w == IF prev_ch.some /\ kern.some THEN FAdd(width, kern.kern) ELSE width
         IN  text_width_from(f, text, size, i + 1, FAdd(w, metrics(f, ch, size).advance_width))

\* Font::text_width
text_width(f, text, size) == text_width_from(f, text, size, 1, F(0))

\* Font::line_height
line_height(f, size) ==
    LET line_metrics == horizontal_line_metrics(size)
    IN  IF line_metrics.some THEN line_metrics.new_line_size ELSE F(size)

\* TextRenderer::default
TextRenderer_default == [word_buffer |-> << >>, character_buffer |-> << >>]

\* a > b on f32.
FGt(a, b) == a # NaN /\ b # NaN /\ a[1] * b[2] > b[1] * a[2]

\* TextRenderer::push_character. st holds the locals of layout_text and what
\* it borrows: cursor_x, topline, prev_ch, the two buffers, the font, the atlas
\* pages and the history of uploads.
push_character(state, ch, size) ==
    Only({Only({
        LET kern == horizontal_kern(st.prev_ch.ch, ch, size)
            cursor_x == IF st.prev_ch.some /\ kern.some
                        THEN FAdd(st.cursor_x, kern.kern)
                        ELSE st.cursor_x
            texture == r.entry.texture
            m == r.entry.metrics
            y == FAdd(st.topline, F((size - m.height) - m.ymin))
        IN  IF st.panic # "none" THEN st
            ELSE IF r.panic # "none" THEN [st EXCEPT !.panic = r.panic]
            ELSE [st EXCEPT !.font = r.font,
                            !.pages = r.pages,
                            !.issued = r.issued,
                            !.character_buffer = Append(@, [texture |-> texture, ch |-> ch,
                                                            x |-> cursor_x, y |-> y]),
                            !.cursor_x = FAdd(cursor_x, m.advance_width),
                            !.prev_ch = SomeChar(ch)]
        : r \in {rasterize(st.font, st.pages, st.issued, ch, size)}})
        : st \in {state}})

\* Mutation of drain_word: the word buffer is emptied and no glyph is emitted.
drain_word_dropped(state, size) == [state EXCEPT !.word_buffer = << >>]

RECURSIVE drain_word(_, _)
\* for ch in self.word_buffer.drain(..) { push_character(ch, ...) }
drain_word(state, size) ==
    Only({IF st.word_buffer = << >> THEN st
          ELSE drain_word(push_character([st EXCEPT !.word_buffer = Tail(@)],
                                         Head(st.word_buffer), size), size)
          : st \in {state}})

\* Mutation of line_break: the previous character is kept over the break.
line_break_keeps_prev(st, x, lh) ==
    [st EXCEPT !.cursor_x = x, !.topline = FAdd(@, lh)]

\* The line break of layout_text, at a wrap (lines 118-120) and at a newline
\* (lines 137-139).
line_break(st, x, lh) ==
    [st EXCEPT !.cursor_x = x, !.topline = FAdd(@, lh), !.prev_ch = NoChar]

RECURSIVE layout_from(_, _, _, _, _, _, _)
\* The loop of TextRenderer::layout_text from the i-th character on, and the
\* drain of the last word after it (lines 154-165).
layout_from(state, x, text, size, max_line_length, lh, i) ==
    Only({
        IF i > Len(text) THEN drain_word(st, size)
        ELSE LET ch == text[i]
             IN  IF ~is_whitespace(ch)
                 THEN layout_from([st EXCEPT !.word_buffer = Append(@, ch)],
                                  x, text, size, max_line_length, lh, i + 1)
                 ELSE LET word_length == text_width(st.font, st.word_buffer, size)
                          s1 == IF FGt(FAdd(st.cursor_x, word_length),
                                       FAdd(x, max_line_length))
                                THEN line_break(st, x, lh)
                                ELSE st
                          s2 == drain_word(s1, size)
                          s3 == IF ch = "\n"
                                THEN line_break(s2, x, lh)
                                ELSE push_character(s2, ch, size)
                      IN  layout_from(s3, x, text, size, max_line_length, lh, i + 1)
        : st \in {state}})

\* TextRenderer::layout_text
layout_text(tr, f, pgs, hist, x, y, text, size, max_line_length) ==
    layout_from([cursor_x |-> x,
                 topline |-> y,
                 prev_ch |-> NoChar,
                 word_buffer |-> tr.word_buffer,
                 character_buffer |-> tr.character_buffer,
                 font |-> f,
                 pages |-> pgs,
                 issued |-> hist,
                 panic |-> "none"],
                x, text, size, max_line_length, line_height(f, size), 1)

\* Mutation of characters: the character buffer is read and not drained.
characters_kept(tr) == [items |-> tr.character_buffer, text_renderer |-> tr]

\* TextRenderer::characters, read to the end.
characters(tr) ==
    [items |-> tr.character_buffer, text_renderer |-> [tr EXCEPT !.character_buffer = << >>]]

----------------------------------------------------------------------------
(* Operations                                                              *)

Init ==
    /\ pages = TextureAtlas_new
    /\ panicked = "none"
    /\ issued = << >>
    /\ last = [op |-> "new", arg |-> << >>]
    /\ gfx = Graphics_new
    /\ draws = << >>
    /\ pending = << >>
    /\ calls = << >>
    /\ textures = << >>
    /\ font = Font_new
    /\ text_renderer = TextRenderer_default
    /\ glyphs = << >>

\* Graphics::new_texture_from_bytes: one call of upload_image. With keep, the
\* caller keeps the handle it is given.
UploadImage(width, height, keep) ==
    /\ panicked = "none"
    /\ LET r == upload_image(pages, width, height)
       IN  /\ panicked' = r.panic
           /\ pages' = r.pages
           /\ issued' = IF keep /\ r.panic = "none"
                        THEN Append(issued, [handle |-> r.handle,
                                             region |-> region_of(r.pages, r.handle)])
                        ELSE issued
    /\ last' = [op |-> "upload_image", arg |-> <<width, height>>]

Upload ==
    /\ Len(issued) < MaxUploads
    /\ \E width \in Dims, height \in Dims : UploadImage(width, height, TRUE)
    /\ UNCHANGED <<gfxVars, textures, textVars>>

NextAtlas == Upload

SpecAtlas == Init /\ [][NextAtlas]_vars

RECURSIVE CountRegions(_, _)
CountRegions(pgs, i) ==
    IF i > Len(pgs) THEN 0 ELSE Len(pgs[i].texture_uvs) + CountRegions(pgs, i + 1)

\* The page-fallback run: a PAGE_SIZE x 1 bitmap uploaded again and again, the
\* handles dropped.
UploadRow ==
    /\ CountRegions(pages, 1) < MaxRowUploads
    /\ UploadImage(ATLAS_SIZE, 1, FALSE)
    /\ UNCHANGED <<gfxVars, textures, textVars>>

NextRows == UploadRow

SpecRows == Init /\ [][NextRows]_vars /\ WF_vars(UploadRow)

\* Venus::new_texture_from_bytes: the bitmap is uploaded and the application
\* keeps the Texture.
NewTexture ==
    /\ Len(textures) < MaxTextures
    /\ \E d \in TexDims :
          /\ UploadImage(d[1], d[2], TRUE)
          /\ textures' = IF panicked' = "none"
                          THEN Append(textures,
                                      new_texture(issued'[Len(issued')].handle, d[1], d[2]))
                          ELSE textures
    /\ UNCHANGED <<gfxVars, textVars>>

\* The sub-rectangles asked of a texture: all of it, its top-left quarter, its
\* bottom-right quarter, and one that leaves it on the right.
SubRects(t) ==
    {<<0, 0, t.width, t.height>>,
     <<0, 0, t.width \div 2, t.height \div 2>>,
     <<t.width \div 2, t.height \div 2, t.width \div 2, t.height \div 2>>,
     <<t.width \div 2, 0, t.width, t.height>>}

\* Texture::sub_texture on a texture the application holds.
SubTexture ==
    /\ panicked = "none"
    /\ Len(textures) < MaxTextures
    /\ \E i \in 1..Len(textures) : \E a \in SubRects(textures[i]) :
          LET r == sub_texture(textures[i], a[1], a[2], a[3], a[4])
          IN  /\ panicked' = IF r.ok THEN "none"
                              ELSE "sub-texture coordinates must be within the bounds of the texture"
              /\ textures' = IF r.ok THEN Append(textures, r.texture) ELSE textures
              /\ last' = [op |-> "sub_texture", arg |-> <<i, a>>]
    /\ UNCHANGED <<pages, issued, gfxVars, textVars>>

\* The rectangles pushed so far: those of the draw calls and the pending ones.
RECURSIVE DrawnRects(_, _)
DrawnRects(ds, i) == IF i > Len(ds) THEN << >> ELSE ds[i].rects \o DrawnRects(ds, i + 1)

Pushed == DrawnRects(draws, 1) \o pending

Positions == {<<10, 20>>}

\* One call of Graphics::push_rect.
PushRect(region, color, texture) ==
    /\ panicked = "none"
    /\ Len(Pushed) < MaxPushes
    /\ LET r == push_rect(gfx, pages, pending, region, color, texture)
       IN  /\ gfx' = r.gfx
           /\ draws' = draws \o r.draw
           /\ pending' = r.pending
           /\ calls' = Append(calls, [region |-> region, color |-> color, texture |-> texture])
           /\ last' = [op |-> "push_rect",
                       arg |-> [unit |-> IF texture.some THEN bind_point(texture.handle) ELSE 0,
                                flushed |-> r.flushed]]
    /\ UNCHANGED <<pages, panicked, issued, textures, textVars>>

\* Venus::draw_rect
DrawRect ==
    \E p \in Positions :
        PushRect(Rect(F(p[1]), F(p[2]), F(4), F(4)), RED, NoTexture)

\* Venus::draw_image
DrawImage ==
    \E i \in 1..Len(textures) : \E p \in Positions :
        LET t == textures[i]
        IN  PushRect(Rect(F(p[1]), F(p[2]), F(t.width), F(t.height)), WHITE,
                     SomeTexture(t.handle, t.uv))

\* Graphics::flush, called by the application or by Venus::end_frame.
Flush ==
    /\ panicked = "none"
    /\ LET f == flush(gfx, pending)
       IN  /\ gfx' = f.gfx
           /\ draws' = draws \o f.draw
           /\ pending' = f.pending
    /\ last' = [op |-> "flush", arg |-> << >>]
    /\ UNCHANGED <<pages, panicked, issued, textures, calls, textVars>>

\* A projection other than the identity: a scale by two.
SCALE2 == <<2, 0, 0, 0, 2, 0, 0, 0, 1>>

Matrices == {SCALE2}

\* Graphics::set_projection_matrix
SetProjection ==
    /\ panicked = "none"
    /\ \E m \in Matrices :
          LET f == set_projection_matrix(gfx, pending, m)
          IN  /\ gfx' = f.gfx
              /\ draws' = draws \o f.draw
              /\ pending' = f.pending
              /\ last' = [op |-> "set_projection_matrix", arg |-> m]
    /\ UNCHANGED <<pages, panicked, issued, textures, calls, textVars>>

\* The batched renderer under an application that uploads bitmaps and draws.
Next ==
    \/ NewTexture
    \/ DrawRect
    \/ DrawImage
    \/ Flush
    \/ SetProjection

Spec == Init /\ [][Next]_vars

\* Textures and sub-textures, uploaded, cut and drawn.
NextUV ==
    \/ NewTexture
    \/ SubTexture
    \/ DrawImage
    \/ Flush

SpecUV == Init /\ [][NextUV]_vars

\* Views: the one of the basic_orthographic test, (20, 20, 100, 100), views
\* whose sizes are powers of two, and a view of width 0.
ViewOrigins == {F(-8), F(0), F(20)}

ViewWidths == {F(0), <<1, 2>>, F(1), F(100), F(128)}

ViewHeights == {<<1, 2>>, F(1), F(100), F(128)}

\* Venus::set_camera: a flush, then the projection of the view is set.
SetCamera ==
    /\ panicked = "none"
    /\ \E x \in ViewOrigins, y \in ViewOrigins, width \in ViewWidths, height \in ViewHeights :
          LET f == flush(gfx, pending)
              g == set_projection_matrix(f.gfx, f.pending,
                                         orthographic_projection(x, y, width, height))
          IN  /\ gfx' = g.gfx
              /\ draws' = draws \o f.draw \o g.draw
              /\ pending' = g.pending
              /\ last' = [op |-> "set_camera",
                          arg |-> [x |-> x, y |-> y, width |-> width, height |-> height]]
    /\ UNCHANGED <<pages, panicked, issued, textures, calls, textVars>>

\* An application that moves its camera.
NextCamera == SetCamera

SpecCamera == Init /\ [][NextCamera]_vars

\* Sub-texture requests over all of u32: a parent straight from an upload and
\* the parent of the sub_texture test, which covers a quarter of its page;
\* offsets and sizes up to 2^32 - 1; a build with and one without overflow
\* checks.
SubParents ==
    {Texture(TextureHandle(0, 0), Rect(F(0), F(0), F(1), F(1)), U32(16), U32(16)),
     Texture(TextureHandle(0, 0), Rect(F(0), F(0), <<1, 2>>, <<1, 2>>), U32(192), U32(320))}

SubOffsets == {U32(0), U32(16), U32(32), U32(192), <<32768, 0>>, <<65535, 65535>>}

SubRequests ==
    [self : SubParents, x : SubOffsets, width : SubOffsets,
     y : {U32(0), <<65535, 65535>>}, height : {U32(1), U32(16), U32(32), U32(320)},
     overflow_checks : BOOLEAN]

InitSub ==
    /\ pages = TextureAtlas_new
    /\ panicked = "none"
    /\ issued = << >>
    /\ last \in {[op |-> "request", arg |-> a] : a \in SubRequests}
    /\ gfx = Graphics_new
    /\ draws = << >>
    /\ pending = << >>
    /\ calls = << >>
    /\ textures = << >>
    /\ font = Font_new
    /\ text_renderer = TextRenderer_default
    /\ glyphs = << >>

\* Texture::sub_texture applied to the request.
SubTextureU32 ==
    /\ last.op = "request"
    /\ LET a == last.arg
           r == sub_texture_u32(a.self, a.x, a.y, a.width, a.height, a.overflow_checks)
       IN  /\ panicked' = r.panic
           /\ last' = [op |-> "sub_texture", arg |-> a, result |-> r]
    /\ UNCHANGED <<pages, issued, gfxVars, textures, textVars>>

NextSub == SubTextureU32

SpecSub == InitSub /\ [][NextSub]_vars

\* The texts laid out and measured: two words; a kerning pair; the pair split by
\* a newline; words at a wrap; a newline before a long word.
HELLO_WORLD == <<"h", "e", "l", "l", "o", " ", "w", "o", "r", "l", "d">>

HELLO_ == <<"h", "e", "l", "l", "o", " ">>

Texts ==
    {HELLO_WORLD,
     <<"a", "b">>,
     <<"a", "\n", "b">>,
     <<"a", "b", " ", "a", "b", "b", " ", "g">>,
     <<"a", "\n", "a", "b", "b", " ", "b">>}


\* The font size of the texts laid out and measured.
Sizes == {16}

\* Line lengths: the width of "hello " at the size, a length shorter than the
\* word "abb", and a length no text reaches.
LineLengths(size) == {text_width(Font_new, HELLO_, size), F(16), F(20), F(4096)}

\* The glyphs rasterized one at a time: a letter at two sizes, and the space.
RasterKeys == {<<"a", 16>>, <<"a", 32>>, <<" ", 16>>}

\* One call of Font::rasterize.
Rasterize ==
    /\ panicked = "none"
    /\ \E key \in RasterKeys :
          LET r == rasterize(font, pages, issued, key[1], key[2])
          IN  /\ panicked' = r.panic
              /\ font' = r.font
              /\ pages' = r.pages
              /\ issued' = r.issued
              /\ last' = [op |-> "rasterize", arg |-> key, result |-> r.entry]
    /\ UNCHANGED <<gfxVars, textures, text_renderer, glyphs>>

\* One call of Font::metrics.
QueryMetrics ==
    /\ panicked = "none"
    /\ \E key \in {<<"a", 16>>, <<"g", 32>>} :
          last' = [op |-> "metrics", arg |-> key, result |-> metrics(font, key[1], key[2])]
    /\ UNCHANGED <<pages, panicked, issued, gfxVars, textures, textVars>>

\* Venus::text_width
TextWidth ==
    /\ panicked = "none"
    /\ \E text \in {<<"a", "b">>, HELLO_}, size \in Sizes :
          last' = [op |-> "text_width", arg |-> <<text, size>>,
                   result |-> text_width(font, text, size)]
    /\ UNCHANGED <<pages, panicked, issued, gfxVars, textures, textVars>>

\* Venus::line_height
LineHeight ==
    /\ panicked = "none"
    /\ \E size \in Sizes :
          last' = [op |-> "line_height", arg |-> size, result |-> line_height(font, size)]
    /\ UNCHANGED <<pages, panicked, issued, gfxVars, textures, textVars>>

\* Venus::layout_text: TextRenderer::layout_text, then the caller's buffer is
\* extended with TextRenderer::characters. The caller passes an empty buffer.
LayoutText ==
    /\ panicked = "none"
    /\ \E text \in Texts, size \in Sizes, p \in Positions :
       \E max_line_length \in LineLengths(size) :
          LET r == layout_text(text_renderer, font, pages, issued,
                               F(p[1]), F(p[2]), text, size, max_line_length)
              c == characters([word_buffer |-> r.word_buffer,
                               character_buffer |-> r.character_buffer])
          IN  /\ panicked' = r.panic
              /\ font' = r.font
              /\ pages' = r.pages
              /\ issued' = r.issued
              /\ text_renderer' = c.text_renderer
              /\ glyphs' = c.items
              /\ last' = [op |-> "layout_text",
                          arg |-> [x |-> F(p[1]), y |-> F(p[2]), text |-> text, size |-> size,
                                   max_line_length |-> max_line_length]]
    /\ UNCHANGED <<gfxVars, textures>>

\* The loop of draw_text_wrap (lines 232-240): draw_image of every glyph, in
\* the order of the character buffer.
RECURSIVE draw_characters(_, _, _, _)
draw_characters(state, pgs, items, i) ==
    IF i > Len(items) THEN state
    ELSE LET c == [region |-> Rect(items[i].x, items[i].y,
                                   F(items[i].texture.width), F(items[i].texture.height)),
                   texture |-> SomeTexture(items[i].texture.handle, items[i].texture.uv)]
         IN
         Only({draw_characters([gfx |-> r.gfx,
                                draw |-> state.draw \o r.draw,
                                pending |-> r.pending,
                                calls |-> Append(state.calls, [region |-> c.region,
                                                               color |-> WHITE,
                                                               texture |-> c.texture])],
                               pgs, items, i + 1)
              : r \in {push_rect(state.gfx, pgs, state.pending, c.region, WHITE, c.texture)}})

\* Texts an application draws, the line lengths it draws them with, and the
\* number of rectangles it draws as text.
DrawTexts == {<<"a", " ", "b">>, <<"a", "b">>, <<"b", " ">>, <<"a", "\n", "b">>}

DrawLengths == {F(16), F(4096)}

MaxGlyphRects == 8

\* Venus::draw_text_wrap: the text is laid out and every glyph is drawn.
DrawTextWrap ==
    /\ panicked = "none"
    /\ \E text \in DrawTexts, size \in Sizes, p \in Positions, max_line_length \in DrawLengths :
          /\ Len(Pushed) + Len(text) <= MaxGlyphRects
          /\ LET r == layout_text(text_renderer, font, pages, issued,
                                  F(p[1]), F(p[2]), text, size, max_line_length)
                 c == characters([word_buffer |-> r.word_buffer,
                                  character_buffer |-> r.character_buffer])
                 d == draw_characters([gfx |-> gfx, draw |-> << >>, pending |-> pending,
                                       calls |-> calls], r.pages, c.items, 1)
             IN  /\ panicked' = r.panic
                 /\ font' = r.font
                 /\ pages' = r.pages
                 /\ issued' = r.issued
                 /\ text_renderer' = c.text_renderer
                 /\ glyphs' = c.items
                 /\ gfx' = d.gfx
                 /\ draws' = draws \o d.draw
                 /\ pending' = d.pending
                 /\ calls' = d.calls
                 /\ last' = [op |-> "draw_text_wrap",
                             arg |-> [x |-> F(p[1]), y |-> F(p[2]), text |-> text,
                                      size |-> size,
                                      max_line_length |-> max_line_length]]
    /\ UNCHANGED textures

\* The glyph cache and the font queries under an application that also uploads
\* bitmaps and draws rectangles.
NextFont ==
    \/ Rasterize
    \/ QueryMetrics
    \/ TextWidth
    \/ LineHeight
    \/ NewTexture
    \/ DrawRect

SpecFont == Init /\ [][NextFont]_vars

\* Texts laid out one after the other with one font and one text renderer.
NextLayout == LayoutText

SpecLayout == Init /\ [][NextLayout]_vars

\* Texts drawn one after the other with one font, one text renderer and one
\* batch of rectangles.
NextDrawText == DrawTextWrap

SpecDrawText == Init /\ [][NextDrawText]_vars

----------------------------------------------------------------------------
(* Properties of the atlas                                                 *)

Min(a, b) == IF a <= b THEN a ELSE b

\* The pixel rectangles of two regions share a pixel.
Overlap(a, b) ==
    /\ Max(a.x, b.x) < Min(a.x + a.width, b.x + b.width)
    /\ Max(a.y, b.y) < Min(a.y + a.height, b.y + b.height)

InsidePage(r) ==
    /\ r.x >= 0
    /\ r.y >= 0
    /\ r.x + r.width <= ATLAS_SIZE
    /\ r.y + r.height <= ATLAS_SIZE

AllRegions == {pages[p].texture_uvs[i] : <<p, i>> \in
                  {q \in (1..Len(pages)) \X (1..MaxRowUploads) : q[2] <= Len(pages[q[1]].texture_uvs)}}

LastUploadWithin(limit) ==
    /\ last.op = "upload_image"
    /\ last.arg[1] <= limit
    /\ last.arg[2] <= limit

\* C1: after any sequence of upload_image calls, no two regions recorded in the
\* same texture page overlap.
C1_NoOverlap ==
    \A p \in 1..Len(pages) :
        \A i, j \in 1..Len(pages[p].texture_uvs) :
            i < j => ~Overlap(pages[p].texture_uvs[i], pages[p].texture_uvs[j])

\* C1 witness: a page holds three bitmaps of positive area, two side by side on
\* one shelf and one on a later shelf.
C1_Witness ==
    \E p \in 1..Len(pages) :
        LET uvs == pages[p].texture_uvs
        IN  /\ Len(uvs) = 3
            /\ \A i \in 1..3 : uvs[i].width > 0 /\ uvs[i].height > 0
            /\ uvs[1].y = uvs[2].y
            /\ uvs[3].y > uvs[1].y

\* C2: when every uploaded bitmap is at most PAGE_SIZE wide and high, every
\* recorded region lies fully inside its page.
C2_RegionsInsidePage ==
    (\A r \in AllRegions : r.width <= ATLAS_SIZE /\ r.height <= ATLAS_SIZE)
        => \A r \in AllRegions : InsidePage(r)

\* C3: upload_image never fails for a bitmap whose width and height are each at
\* most PAGE_SIZE.
C3_UploadNeverFails ==
    LastUploadWithin(ATLAS_SIZE) => panicked = "none"

\* C4: upload_image of a bitmap whose width or height exceeds PAGE_SIZE fails
\* fast, and no region is recorded for it.
C4_OversizeFailsFast ==
    /\ (last.op = "upload_image" /\ ~LastUploadWithin(ATLAS_SIZE)) => panicked # "none"
    /\ \A r \in AllRegions : r.width <= ATLAS_SIZE /\ r.height <= ATLAS_SIZE

\* The first page can take no further PAGE_SIZE x 1 row.
RowsExhausted == Len(pages) >= 1 /\ ~upload_texture(pages[1], ATLAS_SIZE, 1).ok

\* C5: uploading a PAGE_SIZE x 1 bitmap again and again eventually allocates a
\* second page, and does so only once the rows of the first page are exhausted;
\* the page count never decreases and grows by at most one per upload.
C5_PageFallback ==
    /\ <>(Len(pages) = 2)
    /\ [](Len(pages) >= 2 => RowsExhausted)
    /\ [][Len(pages') \in {Len(pages), Len(pages) + 1}]_vars

\* C5 witness: the second page exists and holds the row that the full first
\* page refused.
C5_Witness ==
    /\ Len(pages) = 2
    /\ Len(pages[1].texture_uvs) = ATLAS_SIZE - 1
    /\ Len(pages[2].texture_uvs) = 1

\* C6: every handle returned by upload_image still addresses an existing region
\* with the bounds it had when the handle was returned, and no two uploads
\* returned the same handle.
C6_HandlesStayValid ==
    /\ \A i \in 1..Len(issued) :
          LET t == issued[i].handle
          IN  /\ t.atlas + 1 \in 1..Len(pages)
              /\ t.index + 1 \in 1..Len(pages[t.atlas + 1].texture_uvs)
              /\ region_of(pages, t) = issued[i].region
    /\ \A i, j \in 1..Len(issued) : i < j => issued[i].handle # issued[j].handle

\* C6 witness: a handle into the first page, then a second page is created, then
\* another upload lands in the first page.
C6_Witness ==
    /\ Len(issued) = 3
    /\ issued[1].handle.atlas = 0
    /\ issued[2].handle.atlas = 1
    /\ issued[3].handle.atlas = 0

----------------------------------------------------------------------------
(* Properties of the UV mapping                                            *)

FULL_UV == Rect(F(0), F(0), F(1), F(1))

\* C7: for an uploaded w x h bitmap, uv(handle, {0,0,1,1}) has the size
\* (w / PAGE_SIZE, h / PAGE_SIZE).
C7_FullUVSize ==
    \A i \in 1..Len(issued) :
        LET r == uv(pages, issued[i].handle, FULL_UV)
        IN  /\ r.width = FDiv(F(issued[i].region.width), F(ATLAS_SIZE))
            /\ r.height = FDiv(F(issued[i].region.height), F(ATLAS_SIZE))

\* The UV rectangle lies inside the region, in normalized page coordinates.
InsideRegion(uvr, region) ==
    /\ FLe(FDiv(F(region.x), F(ATLAS_SIZE)), uvr.x)
    /\ FLe(FDiv(F(region.y), F(ATLAS_SIZE)), uvr.y)
    /\ FLe(FAdd(uvr.x, uvr.width), FDiv(F(region.x + region.width), F(ATLAS_SIZE)))
    /\ FLe(FAdd(uvr.y, uvr.height), FDiv(F(region.y + region.height), F(ATLAS_SIZE)))

\* C8: for every texture made by new_texture_from_bytes or derived from one by
\* sub_texture, the UV rectangle push_rect obtains from atlas.uv lies inside the
\* bitmap's allocated region in normalized page coordinates.
C8_UVInsideRegion ==
    \A k \in 1..Len(Pushed) :
        Pushed[k].unit # 0 => InsideRegion(Pushed[k].uv, region_of(pages, Pushed[k].handle))

----------------------------------------------------------------------------
(* Properties of the batched renderer                                      *)

Textured(rects) == {k \in 1..Len(rects) : rects[k].unit # 0}

\* C9: at every draw call, all textured rectangles of the batch have the same
\* bind unit, and it is the value of the image uniform at the draw.
C9_BatchCoherence ==
    \A d \in 1..Len(draws) :
        \A k \in Textured(draws[d].rects) : draws[d].rects[k].unit = draws[d].image

\* C9 witness: a draw call of two textured rectangles, and a later draw call of
\* a rectangle of a texture bound to another unit.
C9_Witness ==
    \E d, e \in 1..Len(draws) :
        /\ d < e
        /\ Cardinality(Textured(draws[d].rects)) = 2
        /\ Textured(draws[e].rects) # {}
        /\ draws[d].image # draws[e].image

\* C10: a push_rect flushes exactly when the rectangle is textured, a texture
\* unit is bound and it is another one; the flush issues one draw call when
\* rectangles are pending and none otherwise; an untextured push leaves the
\* bound unit as it was.
C10_FlushOnUnitChange ==
    [][(last'.op = "push_rect" /\ Len(Pushed') = Len(Pushed) + 1) =>
          LET unit == last'.arg.unit
              differs == unit # 0 /\ gfx.bound_texture # 0 /\ gfx.bound_texture # unit
          IN  /\ last'.arg.flushed <=> differs
              /\ Len(draws') = Len(draws) + (IF differs /\ gfx.vertices > 0 THEN 1 ELSE 0)
              /\ differs /\ gfx.vertices > 0 => draws'[Len(draws')].rects = pending
              /\ unit = 0 => gfx'.bound_texture = gfx.bound_texture
              /\ unit # 0 => gfx'.bound_texture = unit]_vars

\* C10 witness: a rectangle of unit A was pending and bound, a rectangle of unit
\* B has just been pushed: one draw call holds the first, the second is pending.
C10_Witness ==
    /\ last.op = "push_rect"
    /\ last.arg.flushed
    /\ Len(draws) = 1
    /\ Textured(draws[1].rects) # {}
    /\ Len(pending) = 1
    /\ pending[1].unit # 0
    /\ pending[1].unit # draws[1].image

\* C11: in every state vertex_data holds 8 floats for each counted vertex,
\* index_data holds 6 indices for each 4 vertices and every index is below the
\* vertex count; a push_rect adds 4 vertices and the indices i, i+1, i+2, i,
\* i+2, i+3 where i is the vertex count the batch had when the vertices were
\* added; the vertex count returns to 0 only in a step that issues a draw call.
C11_VertexIndexLayout ==
    /\ [](/\ Len(gfx.vertex_data) = 8 * gfx.vertices
          /\ gfx.vertices % 4 = 0
          /\ Len(gfx.index_data) = 6 * (gfx.vertices \div 4)
          /\ \A k \in 1..Len(gfx.index_data) : gfx.index_data[k] < gfx.vertices)
    /\ [][(last'.op = "push_rect" /\ Len(calls') = Len(calls) + 1) =>
             LET i == IF Len(draws') > Len(draws) THEN 0 ELSE gfx.vertices
                 n == Len(gfx'.index_data)
             IN  /\ gfx'.vertices = i + 4
                 /\ Len(gfx'.vertex_data) = 8 * i + 32
                 /\ n = 6 * (i \div 4) + 6
                 /\ SubSeq(gfx'.index_data, n - 5, n) = <<i, i + 1, i + 2, i, i + 2, i + 3>>
                 /\ Len(draws') = Len(draws) =>
                        /\ SubSeq(gfx'.vertex_data, 1, 8 * i) = gfx.vertex_data
                        /\ SubSeq(gfx'.index_data, 1, n - 6) = gfx.index_data]_vars
    /\ [][(gfx.vertices > 0 /\ gfx'.vertices = 0) => Len(draws') = Len(draws) + 1]_vars

\* C11 witness: two rectangles are pending after an earlier draw call, the
\* second one indexed from 4.
C11_Witness ==
    /\ last.op = "push_rect"
    /\ Len(draws) >= 1
    /\ gfx.vertices = 8
    /\ gfx.index_data = <<0, 1, 2, 0, 2, 3, 4, 5, 6, 4, 6, 7>>

\* C12: a flush with pending vertices issues exactly one draw call, of the
\* pending vertex data and of all the pending indices, and leaves vertex data,
\* index data and vertex count empty and the uniforms as they were; a flush
\* with no pending vertices issues no draw call and changes nothing of the
\* renderer.
C12_FlushDrawsAllOrNothing ==
    [][last'.op = "flush" =>
          IF gfx.vertices > 0
          THEN /\ Len(draws') = Len(draws) + 1
               /\ SubSeq(draws', 1, Len(draws)) = draws
               /\ draws'[Len(draws')].vb = gfx.vertex_data
               /\ draws'[Len(draws')].eb = gfx.index_data
               /\ draws'[Len(draws')].range = <<0, Len(gfx.index_data)>>
               /\ gfx'.vertex_data = << >>
               /\ gfx'.index_data = << >>
               /\ gfx'.vertices = 0
               /\ gfx'.shader = gfx.shader
          ELSE /\ draws' = draws
               /\ gfx' = gfx]_vars

\* C12 witness: an explicit flush has just drawn two pending rectangles in one
\* draw call of 12 indices.
C12_Witness ==
    /\ last.op = "flush"
    /\ Len(draws) = 1
    /\ draws[1].range = <<0, 12>>
    /\ Len(draws[1].rects) = 2
    /\ gfx.vertices = 0

\* C13 as stated: after a flush or a set_projection_matrix that draws, no
\* texture unit is bound.
C13_BoundClearedOnFlush ==
    [][(last'.op \in {"flush", "set_projection_matrix"} /\ Len(draws') = Len(draws) + 1) =>
          gfx'.bound_texture = 0]_vars

\* C13 amended: a flush leaves the bound texture unit as it was; the bound unit
\* is the value of the image uniform from the first textured push on, and once
\* a unit is bound the renderer never returns to no unit bound.
C13_BoundKeptOnFlush ==
    /\ [](gfx.bound_texture # 0 => gfx.bound_texture = gfx.shader.image)
    /\ [][last'.op \in {"flush", "set_projection_matrix"} =>
             gfx'.bound_texture = gfx.bound_texture]_vars
    /\ [][gfx.bound_texture # 0 => gfx'.bound_texture # 0]_vars

\* C13 witness: a flush has just drawn a textured rectangle and its unit is
\* still bound.
C13_Witness ==
    /\ last.op = "flush"
    /\ Len(draws) >= 1
    /\ Textured(draws[Len(draws)].rects) # {}
    /\ gfx.vertices = 0
    /\ gfx.bound_texture = draws[Len(draws)].image

\* C14: every rectangle is drawn with the projection matrix that was set when
\* it was pushed; set_projection_matrix leaves nothing pending and the new
\* matrix in the uniform, and the draw call it issues has the old matrix.
C14_ProjectionAppliesToLaterRects ==
    /\ [](\A d \in 1..Len(draws) : \A k \in 1..Len(draws[d].rects) :
              draws[d].rects[k].projection = draws[d].projection)
    /\ [](\A k \in 1..Len(pending) : pending[k].projection = gfx.shader.projection)
    /\ [][last'.op = "set_projection_matrix" =>
             /\ gfx'.shader.projection = last'.arg
             /\ gfx'.vertices = 0
             /\ pending' = << >>
             /\ gfx.vertices > 0 =>
                    /\ Len(draws') = Len(draws) + 1
                    /\ draws'[Len(draws')].projection = gfx.shader.projection
                    /\ draws'[Len(draws')].vb = gfx.vertex_data]_vars

\* C14 witness: a rectangle pushed under the identity has been drawn by
\* set_projection_matrix, and a rectangle pushed after it has been drawn with
\* the new matrix.
C14_Witness ==
    \E d, e \in 1..Len(draws) :
        /\ d < e
        /\ draws[d].projection = IDENTITY
        /\ draws[d].rects # << >>
        /\ draws[e].projection = SCALE2
        /\ draws[e].rects # << >>

\* The vertices of one push_rect call, from its arguments.
RectVertices(call) ==
    LET r == call.region
        c == call.color
        t == IF call.texture.some
             THEN uv(pages, call.texture.handle, call.texture.uv)
             ELSE Rect(F(-1), F(-1), F(0), F(0))
        x1 == FAdd(r.x, r.width)
        y1 == FAdd(r.y, r.height)
        u1 == FAdd(t.x, t.width)
        v1 == FAdd(t.y, t.height)
    IN  <<c.r, c.g, c.b, c.a, r.x, r.y, t.x, t.y>> \o
        <<c.r, c.g, c.b, c.a, x1, r.y, u1, t.y>> \o
        <<c.r, c.g, c.b, c.a, x1, y1, u1, v1>> \o
        <<c.r, c.g, c.b, c.a, r.x, y1, t.x, v1>>

RECURSIVE CalledVertices(_)
\* The vertices of the calls from the i-th on, in call order.
CalledVertices(i) ==
    IF i > Len(calls) THEN << >> ELSE RectVertices(calls[i]) \o CalledVertices(i + 1)

RECURSIVE DrawnVertices(_)
\* The vertex buffers of the draw calls from the i-th on, in draw order.
DrawnVertices(i) ==
    IF i > Len(draws) THEN << >> ELSE draws[i].vb \o DrawnVertices(i + 1)

RECURSIVE gfx_indices(_, _)
\* The indices of n rectangles, the first of them indexed from i.
gfx_indices(n, i) ==
    IF n = 0 THEN << >>
    ELSE <<i, i + 1, i + 2, i, i + 2, i + 3>> \o gfx_indices(n - 1, i + 4)

\* C15: the vertices drawn so far followed by the pending ones are the
\* vertices of the push_rect calls in call order, every draw call draws two
\* triangles for each rectangle of its vertex buffer, and after a flush nothing
\* is pending: no rectangle is dropped, duplicated or reordered.
C15_DrawOrderIsPushOrder ==
    /\ DrawnVertices(1) \o gfx.vertex_data = CalledVertices(1)
    /\ \A d \in 1..Len(draws) :
          /\ draws[d].range = <<0, 6 * (Len(draws[d].vb) \div 32)>>
          /\ draws[d].eb = gfx_indices(Len(draws[d].vb) \div 32, 0)
    /\ last.op = "flush" => (gfx.vertex_data = << >> /\ DrawnVertices(1) = CalledVertices(1))

\* C15 witness: three rectangles pushed, drawn by at least two draw calls, the
\* last one issued by an explicit flush.
C15_Witness ==
    /\ last.op = "flush"
    /\ Len(calls) = 3
    /\ Len(draws) >= 2
    /\ Len(DrawnVertices(1)) = 96

----------------------------------------------------------------------------
(* Properties of the glyph cache and of the text layout                    *)

\* C16: a rasterize of a cached (char, size) returns the stored texture and
\* metrics and uploads nothing; a rasterize of a new key uploads one bitmap and
\* stores what it returns; no step modifies or removes an entry of the cache.
C16_RasterizeIdempotent ==
    /\ [][last'.op = "rasterize" =>
             LET key == last'.arg
             IN  IF key \in DOMAIN font.characters
                 THEN /\ last'.result = font.characters[key]
                      /\ font' = font
                      /\ pages' = pages
                 ELSE /\ DOMAIN font'.characters = DOMAIN font.characters \cup {key}
                      /\ font'.characters[key] = last'.result
                      /\ CountRegions(pages', 1) = CountRegions(pages, 1) + 1]_vars
    /\ [][\A k \in DOMAIN font.characters :
             k \in DOMAIN font'.characters /\ font'.characters[k] = font.characters[k]]_vars

\* C16 witness: the glyph uploaded first has just been rasterized again, after
\* two other glyphs and a bitmap on a second page were uploaded, and the call
\* returned the first handle.
C16_Witness ==
    /\ last.op = "rasterize"
    /\ Len(issued) >= 4
    /\ Len(pages) >= 2
    /\ Cardinality(DOMAIN font.characters) = 3
    /\ last.result.texture.handle = issued[1].handle
    /\ font.characters[last.arg] = last.result

\* C17: metrics, text_width and line_height change nothing of the cache, the
\* atlas, the renderer and the text renderer; metrics returns the stored
\* metrics of a cached glyph and the metrics of the font file otherwise.
C17_QueriesHaveNoEffect ==
    [][last'.op \in {"metrics", "text_width", "line_height"} =>
          /\ font' = font
          /\ pages' = pages
          /\ issued' = issued
          /\ gfx' = gfx
          /\ draws' = draws
          /\ pending' = pending
          /\ text_renderer' = text_renderer
          /\ last'.op = "metrics" =>
                last'.result = IF last'.arg \in DOMAIN font.characters
                               THEN font.characters[last'.arg].metrics
                               ELSE font_metrics(last'.arg[1], last'.arg[2])]_vars

\* C17 witness: metrics has just answered from the cache while a rectangle was
\* pending.
C17_Witness ==
    /\ last.op = "metrics"
    /\ last.arg \in DOMAIN font.characters
    /\ last.result = font.characters[last.arg].metrics
    /\ pending # << >>
    /\ gfx.vertices > 0

RECURSIVE KernedWidth(_, _, _)
\* The advance widths of the characters of text from the i-th on, plus the
\* kerning of every character with the one before it where the font has one.
KernedWidth(text, size, i) ==
    IF i > Len(text) THEN F(0)
    ELSE LET kern == IF i > 1
                     THEN horizontal_kern(text[i - 1], text[i], size)
                     ELSE [some |-> FALSE, kern |-> F(0)]
             k == IF kern.some THEN kern.kern ELSE F(0)
         IN  FAdd(FAdd(k, font_metrics(text[i], size).advance_width),
                  KernedWidth(text, size, i + 1))

\* C18: text_width returns the sum of the advance widths plus the kerning of
\* every pair of consecutive characters for which the font reports one.
C18_TextWidthWithKerning ==
    last.op = "text_width" => last.result = KernedWidth(last.arg[1], last.arg[2], 1)

\* The top line of the line a laid out glyph is on, from its y.
Topline(g, size) ==
    FAdd(g.y, F(-((size - g.texture.height) - font_metrics(g.ch, size).ymin)))

\* C19: "hello world" laid out with a line as long as "hello " is wide has the
\* first glyph of "world" at the line start x, one line height down.
C19_HelloWorldWraps ==
    (/\ last.op = "layout_text"
     /\ last.arg.text = HELLO_WORLD
     /\ last.arg.max_line_length = text_width(font, HELLO_, last.arg.size)) =>
        /\ Len(glyphs) = 11
        /\ glyphs[7].ch = "w"
        /\ glyphs[7].x = last.arg.x
        /\ Topline(glyphs[7], last.arg.size) = FAdd(last.arg.y, line_height(font, last.arg.size))

RECURSIVE GlyphPositions(_, _)
\* The positions in text, from the i-th on, of the characters other than newline.
GlyphPositions(text, i) ==
    IF i > Len(text) THEN << >>
    ELSE (IF text[i] = "\n" THEN << >> ELSE <<i>>) \o GlyphPositions(text, i + 1)

RECURSIVE WordEnd(_, _)
\* The position of the last character of the word that starts at p, p - 1 when
\* no word starts there.
WordEnd(text, p) ==
    IF p > Len(text) \/ is_whitespace(text[p]) THEN p - 1 ELSE WordEnd(text, p + 1)

\* The word that starts at p ends at whitespace and is wider than the line.
WrapsAtLineStart(a, p) ==
    LET q == WordEnd(a.text, p)
    IN  /\ q >= p
        /\ q < Len(a.text)
        /\ FGt(FAdd(a.x, text_width(font, SubSeq(a.text, p, q), a.size)),
               FAdd(a.x, a.max_line_length))

\* The glyphs of the last layout are the characters of the text other than
\* newline, in order; the j-th glyph follows a newline in the text.
AfterNewline(j) ==
    LET pos == GlyphPositions(last.arg.text, 1)
    IN  pos[j] > 1 /\ last.arg.text[pos[j] - 1] = "\n"

\* The top line of glyph j is the top line of the glyph before it (of the
\* layout, for the first glyph) advanced by one line height for each newline
\* between them, and by extra more line heights.
NewlineAdvance(j, extra) ==
    LET a == last.arg
        pos == GlyphPositions(a.text, 1)
        n == IF j > 1 THEN pos[j] - pos[j - 1] - 1 ELSE pos[j] - 1
        base == IF j > 1 THEN Topline(glyphs[j - 1], a.size) ELSE a.y
    IN  Topline(glyphs[j], a.size) =
            FAdd(base, FMul(F(n + extra), line_height(font, a.size)))

\* C20 as stated: the glyphs of the pending word precede the break, the
\* newline has no glyph, and the glyph after a newline is at the line start x,
\* without kerning, one line height below the line of the newline.
C20_NewlineAdvancesOneLine ==
    last.op = "layout_text" =>
        LET pos == GlyphPositions(last.arg.text, 1)
        IN  /\ Len(glyphs) = Len(pos)
            /\ \A j \in 1..Len(glyphs) :
                  /\ glyphs[j].ch = last.arg.text[pos[j]]
                  /\ AfterNewline(j) => (glyphs[j].x = last.arg.x /\ NewlineAdvance(j, 0))

\* C20 amended: as above, and the top line is advanced by one more line height
\* when the word after the newline ends at whitespace and is wider than the
\* line, for the wrap test then breaks the line again at the line start.
C20_NewlineBreaksLine ==
    last.op = "layout_text" =>
        LET pos == GlyphPositions(last.arg.text, 1)
        IN  /\ Len(glyphs) = Len(pos)
            /\ \A j \in 1..Len(glyphs) :
                  /\ glyphs[j].ch = last.arg.text[pos[j]]
                  /\ AfterNewline(j) =>
                        /\ glyphs[j].x = last.arg.x
                        /\ NewlineAdvance(j, IF WrapsAtLineStart(last.arg, pos[j]) THEN 1 ELSE 0)

\* C20 witness: "a", newline, "b" has been laid out: two glyphs, the second at
\* the line start one line height down, although the font kerns "a" and "b".
C20_Witness ==
    /\ last.op = "layout_text"
    /\ last.arg.text = <<"a", "\n", "b">>
    /\ Len(glyphs) = 2
    /\ glyphs[2].ch = "b"
    /\ glyphs[2].x = last.arg.x
    /\ horizontal_kern("a", "b", last.arg.size).some
    /\ Topline(glyphs[2], last.arg.size) = FAdd(last.arg.y, line_height(font, last.arg.size))

\* x + width (or y + height) is more than the parent's dimension, the sum
\* taken without a width limit.
Exceeds(from, size, limit) ==
    LET sum == u32_add(from, size)
    IN  sum.overflow \/ ~u32_le(sum.value, limit)

\* C21: sub_texture returns a texture exactly when x + width <= parent.width and
\* y + height <= parent.height: every request past the parent's dimensions,
\* sums past 32 bits included, returns no texture, every other request returns
\* one, and the request (0, 0, parent.width, parent.height) returns a texture
\* with the parent's UV rect.
C21_SubTexturePrecondition ==
    last.op = "sub_texture" =>
        LET a == last.arg
            outside == \/ Exceeds(a.x, a.width, a.self.width)
                       \/ Exceeds(a.y, a.height, a.self.height)
        IN  /\ outside <=> last.result.panic # "none"
            /\ (a.x = U32(0) /\ a.y = U32(0) /\ a.width = a.self.width
                    /\ a.height = a.self.height)
                   => /\ last.result.panic = "none"
                      /\ last.result.texture.uv = a.self.uv

\* C22: for a parent with UV rect {0, 0, 0.5, 0.5} and a request (0, 0, w, h)
\* inside it, sub.width / parent.width = sub.uv.width / 2.0 and
\* sub.height / parent.height = sub.uv.height / 2.0.
C22_SubTextureUVRatio ==
    (/\ last.op = "sub_texture"
     /\ last.result.panic = "none"
     /\ last.arg.self.uv = Rect(F(0), F(0), <<1, 2>>, <<1, 2>>)
     /\ last.arg.x = U32(0)
     /\ last.arg.y = U32(0))
        => LET sub == last.result.texture
               parent == last.arg.self
           IN  /\ f32_div_u32(sub.width, parent.width) = FDiv(sub.uv.width, F(2))
               /\ f32_div_u32(sub.height, parent.height) = FDiv(sub.uv.height, F(2))

\* C23: for a view (x, y, width, height) with positive width and height the
\* projection maps (x, y) to (-1, 1), (x + width, y + height) to (1, -1) and
\* the centre of the view to (0, 0).
C23_ProjectionMapsView ==
    (last.op = "set_camera" /\ last.arg.width[1] > 0 /\ last.arg.height[1] > 0) =>
        LET a == last.arg
            m == gfx.shader.projection
        IN  /\ transform_point2(m, <<a.x, a.y>>) = <<F(-1), F(1)>>
            /\ transform_point2(m, <<FAdd(a.x, a.width), FAdd(a.y, a.height)>>)
                   = <<F(1), F(-1)>>
            /\ transform_point2(m, <<FAdd(a.x, FDiv(a.width, F(2))),
                                     FAdd(a.y, FDiv(a.height, F(2)))>>) = <<F(0), F(0)>>

\* The view of the basic_orthographic test has been set.
C23_Witness ==
    /\ last.op = "set_camera"
    /\ last.arg = [x |-> F(20), y |-> F(20), width |-> F(100), height |-> F(100)]
    /\ transform_point2(gfx.shader.projection, <<F(70), F(70)>>) = <<F(0), F(0)>>

\* The pages, among those that exist before an upload of width x height, that
\* do not answer CantFit.
FittingPages(width, height) ==
    {j \in 1..Len(pages) : upload_texture(pages[j], width, height).ok}

\* C24: upload_image is first-fit over the pages in the order they were
\* allocated: the handle names the first existing page that does not answer
\* CantFit; a page is added, with index the former number of pages and bound to
\* texture unit index + 1, only when every existing page answers CantFit; and
\* a page that answers CantFit keeps its cursor, line height and regions.
C24_FirstFit ==
    [][(last'.op = "upload_image" /\ panicked = "none") =>
          LET width == last'.arg[1]
              height == last'.arg[2]
              fits == FittingPages(width, height)
              handle == issued'[Len(issued')].handle
          IN  /\ \A j \in (1..Len(pages)) \ fits :
                    /\ upload_texture(pages[j], width, height).page = pages[j]
                    /\ pages'[j] = pages[j]
              /\ fits # {} =>
                    /\ panicked' = "none"
                    /\ Len(issued') = Len(issued) + 1
                    /\ handle.atlas + 1 \in fits
                    /\ \A j \in fits : handle.atlas + 1 <= j
                    /\ Len(pages') = Len(pages)
                    /\ \A j \in 1..Len(pages) : j # handle.atlas + 1 => pages'[j] = pages[j]
              /\ (fits = {} /\ panicked' = "none") =>
                    /\ Len(issued') = Len(issued) + 1
                    /\ handle.atlas = Len(pages)
                    /\ Len(pages') = Len(pages) + 1
                    /\ pages'[Len(pages')].backing_texture.active = handle.atlas + 1
                    /\ \A j \in 1..Len(pages) : pages'[j] = pages[j]
              /\ (fits = {} /\ panicked' # "none") => pages' = pages]_vars

\* The first page answered CantFit to the last bitmap, which the second page
\* took; and a bitmap that fits both pages has gone to the first.
C24_Witness ==
    /\ Len(pages) = 2
    /\ Len(issued) = 3
    /\ issued[2].handle.atlas = 1
    /\ \/ /\ issued[3].handle.atlas = 1
          /\ ~upload_texture(pages[1], last.arg[1], last.arg[2]).ok
       \/ /\ issued[3].handle.atlas = 0
          /\ upload_texture(pages[2], last.arg[1], last.arg[2]).ok

\* C28: every region recorded in the atlas has a width and a height above
\* zero, so that no rectangle is pushed with a UV size divided by zero, the
\* glyphs of whitespace included.
C28_RegionsPositive ==
    /\ \A j \in 1..Len(pages) : \A k \in 1..Len(pages[j].texture_uvs) :
          /\ pages[j].texture_uvs[k].width > 0
          /\ pages[j].texture_uvs[k].height > 0
    /\ \A k \in 1..Len(Pushed) :
          /\ Pushed[k].uv.width[2] # 0
          /\ Pushed[k].uv.height[2] # 0

\* The positions in text at which a word starts.
WordStarts(text) ==
    {p \in 1..Len(text) : ~is_whitespace(text[p]) /\ (p = 1 \/ is_whitespace(text[p - 1]))}

\* The glyph of the last layout for the character at position p of its text.
GlyphOf(p) ==
    CHOOSE j \in 1..Len(glyphs) : GlyphPositions(last.arg.text, 1)[j] = p

\* The cursor when the word at p is emitted: the line start at the start of
\* the text and after a newline, else the end of the whitespace glyph before it.
CursorBefore(p) ==
    IF p = 1 \/ last.arg.text[p - 1] = "\n" THEN last.arg.x
    ELSE FAdd(glyphs[GlyphOf(p) - 1].x,
              font_metrics(last.arg.text[p - 1], last.arg.size).advance_width)

\* The word at p, which ends at whitespace and has the given width, is placed
\* by the wrap rule: past the line, its first glyph is at the line start one
\* line height down; else it goes on at the cursor on the line it was on.
PlacedByWrapRule(p, word_width) ==
    LET a == last.arg
        j == GlyphOf(p)
    IN  IF FGt(FAdd(CursorBefore(p), word_width), FAdd(a.x, a.max_line_length))
        THEN glyphs[j].x = a.x /\ NewlineAdvance(j, 1)
        ELSE glyphs[j].x = CursorBefore(p) /\ NewlineAdvance(j, 0)

\* C25: at the whitespace that ends a word, when cursor x + the width of the
\* word is past line start x + max line length the whole word goes to the next
\* line, its first glyph at the line start x, one line height down; otherwise
\* it goes on on the current line; and all glyphs of a word are on one line.
C25_WordWrapsWhole ==
    (last.op = "layout_text" /\ Len(glyphs) = Len(GlyphPositions(last.arg.text, 1))) =>
        \A p \in WordStarts(last.arg.text) :
            LET a == last.arg
                q == WordEnd(a.text, p)
            IN  /\ q < Len(a.text) =>
                      PlacedByWrapRule(p, KernedWidth(SubSeq(a.text, p, q), a.size, 1))
                /\ \A k \in p..q :
                      Topline(glyphs[GlyphOf(k)], a.size) = Topline(glyphs[GlyphOf(p)], a.size)

\* The characters of the glyphs returned by the last layout, in order.
GlyphChars == [j \in 1..Len(glyphs) |-> glyphs[j].ch]

\* C26: the characters of the glyphs of one layout_text call are the
\* characters of its text with every newline removed, in the order of the
\* text, one glyph for each; whitespace other than newline has a glyph, after
\* the glyphs of the word before it.
C26_GlyphsAreTextWithoutNewlines ==
    last.op = "layout_text" =>
        GlyphChars = SelectSeq(last.arg.text, LAMBDA ch : ch # "\n")

\* A text with a newline, a word and a space has been laid out with a line
\* that wraps the word: six glyphs, the space after the word "abb".
C26_Witness ==
    /\ last.op = "layout_text"
    /\ last.arg.text = <<"a", "\n", "a", "b", "b", " ", "b">>
    /\ last.arg.max_line_length = F(20)
    /\ GlyphChars = <<"a", "a", "b", "b", " ", "b">>
    /\ glyphs[5].texture.width = 0

\* The character, position and size of every glyph of a list.
Placement(items) ==
    [j \in 1..Len(items) |-> [ch |-> items[j].ch, x |-> items[j].x, y |-> items[j].y,
                              width |-> items[j].texture.width,
                              height |-> items[j].texture.height]]

\* What layout_text with these arguments leaves in the character buffer of a
\* new text renderer, with a font that has rasterized nothing yet.
FreshLayout(a) ==
    layout_text(TextRenderer_default, Font_new, TextureAtlas_new, << >>,
                a.x, a.y, a.text, a.size, a.max_line_length).character_buffer

\* C27: no layout state is kept from one call to the next: after a Venus
\* layout call the word buffer and the character buffer are empty, and the
\* glyphs of a call are those of its own text, placed as a new text renderer
\* and a font with an empty cache place them.
C27_LayoutStateNotKept ==
    /\ text_renderer = TextRenderer_default
    /\ last.op = "layout_text" => Placement(glyphs) = Placement(FreshLayout(last.arg))

\* "ab" has been laid out by a renderer and a font that laid out "hello world"
\* and a text with a newline before: two glyphs.
C27_Witness ==
    /\ last.op = "layout_text"
    /\ last.arg.text = <<"a", "b">>
    /\ {<<"h", 16>>, <<"g", 16>>} \subseteq DOMAIN font.characters
    /\ Len(glyphs) = 2
    /\ text_renderer.character_buffer = << >>

====
